---- MODULE Spec2Model ----
(***************************************************************************)
(* The programs of the repository as state machines:                       *)
(*   game = "kingshot"   src/kingshot.py   (waves every 300 frames)        *)
(*   game = "ks_thrown"  src/ks_thrown.py  (build / defend days, gold)     *)
(*   game = "starcraft"  src/starcraft.py  (RTS demo, human against AI)    *)
(* The two tower-defense games share the classes King, Tower, Enemy and    *)
(* Projectile and run under Spec; starcraft runs under SpecSc; SpecTarget  *)
(* applies the target scan of Tower.update to drawn enemy lists.           *)
(*                                                                         *)
(* Coordinates are Python floats.  They are kept here as integers in       *)
(* units of 1/Scale pixel, which is exact for every position the inputs    *)
(* below produce (Enemy.speed = 1.5 px is 15 units, the projectile speed   *)
(* 8 px is 80 units).  math.hypot(dx, dy) < r is compared as               *)
(* dx*dx + dy*dy < r*r.                                                    *)
(*                                                                         *)
(* The draw section of the main loops (rendering) is not part of the       *)
(* model; Projectile.__init__ is, including its use of the colour names.   *)
(***************************************************************************)
EXTENDS Integers, Sequences, FiniteSets, TLC

VARIABLES
    game,          \* which script runs: "kingshot" or "ks_thrown"
    crashed,       \* an exception has left main(): the process is dead
    king,          \* King: [health, shoot_cooldown]; x, y never change
    towers,        \* list of Tower: [x, y, shoot_cooldown]
    enemies,       \* list of Enemy: [x, y, health]
    projectiles,   \* list of Projectile: [x, y, vx, vy, damage, radius] + ghosts
    mouse_x,       \* main(): mouse_x
    mouse_y,       \* main(): mouse_y
    game_over,     \* main(): game_over
    wave,          \* kingshot main(): wave
    wave_timer,    \* kingshot main(): wave_timer
    spawn_timer,   \* kingshot main(): spawn_timer
    gold,          \* ks_thrown main(): gold
    day,           \* ks_thrown main(): day
    build_phase,   \* ks_thrown main(): build_phase
    day_timer,     \* ks_thrown main(): day_timer
    wave_active,   \* ks_thrown main(): wave_active
    gold_earned,   \* ks_thrown main(): gold_earned
    obs,           \* ghost: what the last update section did
    day_kills,     \* ghost: enemies killed by projectiles since the last
                   \*        Build->Defend transition of the current game
    player,        \* ghost: the player of this run (input bound): what
                   \*        the clicks are used for, where the mouse rests
    scan_target,   \* Tower.update: target after the scan (index in the
                   \*        enemy list, 0 for None, -1 before the scan)
    sc,            \* src/starcraft.py: the StarCraftClone object
    sc_obs         \* ghost: what the last step of starcraft did

vars == <<game, crashed, king, towers, enemies, projectiles,
          mouse_x, mouse_y, game_over, wave, wave_timer, spawn_timer,
          gold, day, build_phase, day_timer, wave_active, gold_earned,
          obs, day_kills, player, scan_target, sc, sc_obs>>

-----------------------------------------------------------------------------
(* Program constants (pixels, frames, health points, gold).                *)

Scale == 10
SCREEN_WIDTH == 800
SCREEN_HEIGHT == 600
King_radius == 20
King_max_health == 100
King_shoot_delay == 10
Tower_range == 150
Tower_shoot_delay == 30
Tower_damage == 20
Enemy_speed_units == 15
Enemy_max_health == 50
Enemy_radius == 15
Enemy_gold_reward == 10
Projectile_speed == 8
Projectile_default_damage == 10
Projectile_radius_player == 2
Projectile_radius_other == 3
wave_period == 300
spawn_pause == 60
enemies_per_wave == 2
kingshot_contact_damage == 10
start_gold == 200
start_day_timer == 600
win_condition == 5
tower_cost == 50
enemies_per_day == 3
day_timer_step == 60
day_bonus == 50
contact_damage == 15

(* Bounds of the model: the inputs the environment may give.               *)

\* the last day in whose build phase the ks_thrown player places towers
MaxBuildDay == 1
\* pygame.mouse.get_pos(): the positions the mouse is read at (px)
MousePositions ==
    {<<85, SCREEN_HEIGHT \div 2>>, <<150, SCREEN_HEIGHT \div 2>>, <<0, 151>>}
\* the players: what the clicks are used for, and where the mouse rests
Players ==
    {[role |-> "shooter", aim |-> <<85, SCREEN_HEIGHT \div 2>>]}
        \cup {[role |-> "builder", aim |-> m] : m \in MousePositions}
\* random.randint(50, SCREEN_HEIGHT - 50): the rows enemies start on (px)
StartYs == {SCREEN_HEIGHT \div 2}
\* random.choice([0, SCREEN_WIDTH]): the sides enemies start on (px)
Sides == {0}

-----------------------------------------------------------------------------
(* Geometry.                                                               *)

Px(n) == n * Scale

Abs(n) == IF n < 0 THEN -n ELSE n

\* math.hypot(dx, dy), exact on the axis-aligned and Pythagorean arguments
\* the inputs produce
hypot(dx, dy) ==
    IF dy = 0 THEN Abs(dx)
    ELSE IF dx = 0 THEN Abs(dy)
    ELSE CHOOSE r \in 1..(Abs(dx) + Abs(dy)) : r * r = dx * dx + dy * dy

\* math.hypot(dx, dy) < r, r in pixels
hypot_lt(dx, dy, r) == dx * dx + dy * dy < Px(r) * Px(r)

King_x == Px(SCREEN_WIDTH \div 2)
King_y == Px(SCREEN_HEIGHT \div 2)

-----------------------------------------------------------------------------
(* King.                                                                   *)

King_init == [health |-> King_max_health, shoot_cooldown |-> 0]

\* a faulty variant: the cooldown is lowered whatever its value
King_update_always(k) == [k EXCEPT !.shoot_cooldown = @ - 1]

King_update(k) ==
    IF k.shoot_cooldown > 0
    THEN [k EXCEPT !.shoot_cooldown = @ - 1]
    ELSE k

(* Projectile.__init__(x, y, angle, damage, is_player) with                 *)
(* angle = math.atan2(ty - y, tx - x).  is_player decides radius and       *)
(* colour only: it is not stored on the object.  hits, moved and age are   *)
(* ghost fields (damage applied so far, updated at least once, number of   *)
(* updates so far).                                                        *)
Projectile_init(x, y, tx, ty, damage, is_player) ==
    LET dx == tx - x
        dy == ty - y
        d  == hypot(dx, dy)
    IN  [x |-> x, y |-> y,
         vx |-> IF d = 0 THEN Px(Projectile_speed)
                ELSE (dx * Px(Projectile_speed)) \div d,
         vy |-> IF d = 0 THEN 0
                ELSE (dy * Px(Projectile_speed)) \div d,
         damage |-> damage,
         radius |-> IF is_player THEN Projectile_radius_player
                    ELSE Projectile_radius_other,
         hits |-> 0, moved |-> FALSE, age |-> 0]

(* self.color = YELLOW if not is_player else WHITE: kingshot.py defines no *)
(* YELLOW, so building a projectile that is not the player's raises        *)
(* NameError there.                                                        *)
Projectile_init_raises(g, is_player) == g = "kingshot" /\ ~is_player

\* King.shoot: [king, projectiles, fired]
King_shoot(k, tx, ty, projs) ==
    IF k.shoot_cooldown <= 0
    THEN [king |-> [k EXCEPT !.shoot_cooldown = King_shoot_delay],
          projectiles |-> Append(projs,
              Projectile_init(King_x, King_y, tx, ty,
                              Projectile_default_damage, TRUE)),
          fired |-> TRUE]
    ELSE [king |-> k, projectiles |-> projs, fired |-> FALSE]

-----------------------------------------------------------------------------
(* Tower.                                                                  *)

Tower_init(x, y) == [x |-> x, y |-> y, shoot_cooldown |-> 0]

\* a faulty variant: <= for < in the comparison with min_dist
RECURSIVE Tower_scan_le(_, _, _, _, _)
Tower_scan_le(tw, es, i, target, min_d2) ==
    IF i > Len(es) THEN target
    ELSE LET d2 == (es[i].x - tw.x) * (es[i].x - tw.x)
                   + (es[i].y - tw.y) * (es[i].y - tw.y)
         IN  IF d2 < Px(Tower_range) * Px(Tower_range)
                /\ (target = 0 \/ d2 <= min_d2)
             THEN Tower_scan_le(tw, es, i + 1, i, d2)
             ELSE Tower_scan_le(tw, es, i + 1, target, min_d2)

\* the nearest-so-far scan of Tower.update: index of the target, 0 for None
RECURSIVE Tower_scan(_, _, _, _, _)
Tower_scan(tw, es, i, target, min_d2) ==
    IF i > Len(es) THEN target
    ELSE LET d2 == (es[i].x - tw.x) * (es[i].x - tw.x)
                   + (es[i].y - tw.y) * (es[i].y - tw.y)
         IN  IF d2 < Px(Tower_range) * Px(Tower_range)
                /\ (target = 0 \/ d2 < min_d2)
             THEN Tower_scan(tw, es, i + 1, i, d2)
             ELSE Tower_scan(tw, es, i + 1, target, min_d2)

Tower_target(tw, es) == Tower_scan(tw, es, 1, 0, 0)

\* Tower.update: [tower, projectiles, raised]
Tower_update(g, tw, es, projs) ==
    IF tw.shoot_cooldown > 0
    THEN [tower |-> [tw EXCEPT !.shoot_cooldown = @ - 1],
          projectiles |-> projs, raised |-> FALSE]
    ELSE LET t == Tower_target(tw, es)
         IN  IF t = 0
             THEN [tower |-> tw, projectiles |-> projs, raised |-> FALSE]
             ELSE IF Projectile_init_raises(g, FALSE)
             THEN [tower |-> tw, projectiles |-> projs, raised |-> TRUE]
             ELSE [tower |-> [tw EXCEPT !.shoot_cooldown = Tower_shoot_delay],
                   projectiles |-> Append(projs,
                       Projectile_init(tw.x, tw.y, es[t].x, es[t].y,
                                       Tower_damage, FALSE)),
                   raised |-> FALSE]

\* for tower in towers: tower.update(enemies, projectiles)
RECURSIVE Towers_loop(_, _, _, _, _)
Towers_loop(g, tws, i, es, projs) ==
    IF i > Len(tws)
    THEN [towers |-> tws, projectiles |-> projs, raised |-> FALSE]
    ELSE LET r == Tower_update(g, tws[i], es, projs)
         IN  IF r.raised
             THEN [towers |-> tws, projectiles |-> projs, raised |-> TRUE]
             ELSE Towers_loop(g, [tws EXCEPT ![i] = r.tower], i + 1, es,
                              r.projectiles)

-----------------------------------------------------------------------------
(* Enemy.                                                                  *)

\* Enemy(start_x, start_y, king.x, king.y): the target is the king's place
Enemy_init(start_x, start_y) ==
    [x |-> Px(start_x), y |-> Px(start_y), health |-> Enemy_max_health]

\* a faulty variant: the step is taken away from the target
Enemy_update_away(e) ==
    LET dx   == King_x - e.x
        dy   == King_y - e.y
        dist == hypot(dx, dy)
    IN  IF dist > 0
        THEN [e EXCEPT !.x = @ - (dx * Enemy_speed_units) \div dist,
                       !.y = @ - (dy * Enemy_speed_units) \div dist]
        ELSE e

\* Enemy.update: one step of length speed towards the target
Enemy_update(e) ==
    LET dx   == King_x - e.x
        dy   == King_y - e.y
        dist == hypot(dx, dy)
    IN  IF dist > 0
        THEN [e EXCEPT !.x = @ + (dx * Enemy_speed_units) \div dist,
                       !.y = @ + (dy * Enemy_speed_units) \div dist]
        ELSE e

RemoveAt(s, i) == SubSeq(s, 1, i - 1) \o SubSeq(s, i + 1, Len(s))

(* a faulty variant: the scan runs over the live list, for enemy in        *)
(* enemies, so that a removal shifts the entries the iterator has not yet  *)
(* reached; snap is the live list                                          *)
RECURSIVE Enemies_loop_live(_, _, _, _, _)
Enemies_loop_live(snap, i, kept, k, damage) ==
    IF i > Len(snap) THEN [enemies |-> snap, king |-> k]
    ELSE LET e == Enemy_update(snap[i])
         IN  IF hypot_lt(e.x - King_x, e.y - King_y,
                         Enemy_radius + King_radius)
             THEN Enemies_loop_live(RemoveAt(snap, i), i + 1, kept,
                                    [k EXCEPT !.health = @ - damage], damage)
             ELSE Enemies_loop_live([snap EXCEPT ![i] = e], i + 1, kept, k,
                                    damage)

(* for enemy in enemies[:]: enemy.update(); on reaching the king           *)
(* king.health -= damage and enemies.remove(enemy).                        *)
(* snap is the snapshot enemies[:], kept the part of the live list already *)
(* visited: [enemies, king].                                               *)
RECURSIVE Enemies_loop(_, _, _, _, _)
Enemies_loop(snap, i, kept, k, damage) ==
    IF i > Len(snap) THEN [enemies |-> kept, king |-> k]
    ELSE LET e == Enemy_update(snap[i])
         IN  IF hypot_lt(e.x - King_x, e.y - King_y,
                         Enemy_radius + King_radius)
             THEN Enemies_loop(snap, i + 1, kept,
                               [k EXCEPT !.health = @ - damage], damage)
             ELSE Enemies_loop(snap, i + 1, Append(kept, e), k, damage)

-----------------------------------------------------------------------------
(* Projectile.                                                             *)

\* index of the first enemy of es the projectile overlaps, 0 if none
RECURSIVE Projectile_first_overlap(_, _, _)
Projectile_first_overlap(p, es, i) ==
    IF i > Len(es) THEN 0
    ELSE IF hypot_lt(p.x - es[i].x, p.y - es[i].y, p.radius + Enemy_radius)
    THEN i
    ELSE Projectile_first_overlap(p, es, i + 1)

\* a faulty variant: the screen has no edge
Projectile_on_screen_always(p) == TRUE

\* 0 < self.x < SCREEN_WIDTH and 0 < self.y < SCREEN_HEIGHT
Projectile_on_screen(p) ==
    /\ 0 < p.x /\ p.x < Px(SCREEN_WIDTH)
    /\ 0 < p.y /\ p.y < Px(SCREEN_HEIGHT)

\* Enemy.take_damage: self.health -= damage
Enemy_take_damage(e, damage) == [e EXCEPT !.health = @ - damage]

\* a faulty variant: dead as soon as the enemy is wounded
Enemy_is_dead_early(e) == e.health < Enemy_max_health

\* Enemy.take_damage: return self.health <= 0
Enemy_is_dead(e) == e.health <= 0

(* hasattr(self, 'is_player'): __init__ never stores is_player, so the     *)
(* test against the king is made for every projectile.                     *)
Projectile_has_is_player(p) == FALSE

(* Projectile.update(enemies, king):                                       *)
(*   [proj, enemies, king, hit, reward, killed, damaged, king_hit, early]  *)
(* hit and reward are the values returned (kingshot returns hit alone);    *)
(* damaged counts the entities whose health this call lowered; early says  *)
(* that an enemy left the list with health above 0.                        *)
Projectile_update(p, es, k) ==
    LET q == [p EXCEPT !.x = @ + p.vx, !.y = @ + p.vy, !.moved = TRUE,
                       !.age = @ + 1]
        i == Projectile_first_overlap(q, es, 1)
    IN  IF i # 0
        THEN LET e == Enemy_take_damage(es[i], q.damage)
                 dead == Enemy_is_dead(e)
             IN  [proj |-> [q EXCEPT !.hits = @ + 1],
                  enemies |-> IF dead THEN RemoveAt(es, i)
                              ELSE [es EXCEPT ![i] = e],
                  king |-> k, hit |-> TRUE,
                  reward |-> IF dead THEN Enemy_gold_reward ELSE 0,
                  killed |-> IF dead THEN 1 ELSE 0,
                  damaged |-> 1, king_hit |-> FALSE,
                  early |-> dead /\ e.health > 0]
        ELSE IF ~Projectile_has_is_player(q)
                /\ hypot_lt(q.x - King_x, q.y - King_y,
                            q.radius + King_radius)
        THEN [proj |-> [q EXCEPT !.hits = @ + 1], enemies |-> es,
              king |-> [k EXCEPT !.health = @ - q.damage], hit |-> TRUE,
              reward |-> 0, killed |-> 0, damaged |-> 1, king_hit |-> TRUE,
              early |-> FALSE]
        ELSE [proj |-> q, enemies |-> es, king |-> k,
              hit |-> ~Projectile_on_screen(q),
              reward |-> 0, killed |-> 0, damaged |-> 0, king_hit |-> FALSE,
              early |-> FALSE]

Max(a, b) == IF a >= b THEN a ELSE b

\* a faulty variant: the projectile stays in the list after a hit
Projectiles_keep_all(kept, r) == Append(kept, r.proj)

\* if hit: projectiles.remove(proj)
Projectiles_keep(kept, r) == IF r.hit THEN kept ELSE Append(kept, r.proj)

(* for proj in projectiles[:]: hit, reward = proj.update(enemies, king);   *)
(* if hit: gold_earned += reward; projectiles.remove(proj).                *)
(* acc: [projectiles, enemies, king, reward, killed, dmg_max,              *)
(*       player_hit_king, off_screen, early_kill]                          *)
RECURSIVE Projectiles_loop(_, _, _)
Projectiles_loop(snap, i, acc) ==
    IF i > Len(snap) THEN acc
    ELSE LET r == Projectile_update(snap[i], acc.enemies, acc.king)
         IN  Projectiles_loop(snap, i + 1,
                 [projectiles |-> Projectiles_keep(acc.projectiles, r),
                  enemies |-> r.enemies,
                  king |-> r.king,
                  reward |-> acc.reward + r.reward,
                  killed |-> acc.killed + r.killed,
                  dmg_max |-> Max(acc.dmg_max, r.damaged),
                  player_hit_king |-> acc.player_hit_king
                      \/ (r.king_hit
                          /\ snap[i].radius = Projectile_radius_player),
                  off_screen |-> acc.off_screen
                      \/ (r.hit /\ r.damaged = 0),
                  early_kill |-> acc.early_kill \/ r.early])

Projectiles_run(projs, es, k) ==
    Projectiles_loop(projs, 1,
        [projectiles |-> <<>>, enemies |-> es, king |-> k, reward |-> 0,
         killed |-> 0, dmg_max |-> 0, player_hit_king |-> FALSE,
         off_screen |-> FALSE, early_kill |-> FALSE])

-----------------------------------------------------------------------------
(* starcraft.py: constants and classes.  Positions are pixels (units) or   *)
(* tiles (resources, buildings); every position the inputs below produce   *)
(* is a whole number.  Enum members are written as Python prints them, so  *)
(* that a comparison of a member with a plain string is never true.        *)

Sc_SCREEN_WIDTH == 1024
Sc_SCREEN_HEIGHT == 768
TILE_SIZE == 32
MAP_WIDTH == Sc_SCREEN_WIDTH \div TILE_SIZE
MAP_HEIGHT == Sc_SCREEN_HEIGHT \div TILE_SIZE
Unit_health == 100
Unit_speed == 2
Unit_size == 16
Unit_attack_range == 50
Unit_attack_damage == 10
unit_cost == 50
spawn_spread == 20
Player_minerals == 50
Resource_amount == 1000
harvest_range == 20
gather_rate == 8
barracks_cost == 150
ai_period == 60
drag_min == 10

(* Bounds of the starcraft model.                                          *)

\* the frames in which the human's mouse events arrive: those the loop
\* enters with ai_timer at one of these values
EventPhases == {0}
\* the frames in which the human's key events arrive
KeyPhases == {0, 15}
\* pygame.mouse.get_pos() at a press of button 1
SelectPoints == {<<5, 6>>}
\* pygame.mouse.get_pos() at a release of button 1
BoxPoints == {<<341, 301>>}
\* pygame.mouse.get_pos() at a press of button 3
OrderPoints == {<<5, 301>>, <<197, 301>>, <<341, 301>>, <<320, 320>>}
\* pygame.mouse.get_pos() at a press of B
BuildPoints == {<<5, 301>>}
\* pygame.key.get_pressed()[pygame.K_LCTRL] at a press of button 1
CtrlKeys == {FALSE, TRUE}
\* pygame.key.get_pressed()[pygame.K_LCTRL] at a release of button 1
BoxCtrlKeys == {FALSE, TRUE}
\* (random.randint(-20, 20), random.randint(-20, 20))
SpawnOffsets == {<<-20, 20>>}
\* random.random() < 0.1
AiRolls == {TRUE, FALSE}
\* the T presses that reach a barracks
MaxTrainKeys == 1
\* the barracks the human builds
MaxBarracks == 1
\* the right presses next to a resource whose amount is 0 or below
MaxDepletedOrders == 1
\* the entries of selected_units
MaxSelected == 2

NoTarget == [kind |-> "None", a |-> 0, b |-> 0]

\* Unit.__init__
Unit_init(unit_type, x, y) ==
    [type |-> unit_type, x |-> x, y |-> y, tx |-> x, ty |-> y,
     health |-> Unit_health, order |-> "Order.IDLE", target |-> NoTarget]

\* Unit.issue_order(Order.MOVE, (x, y))
Unit_order_move(u, x, y) ==
    [u EXCEPT !.order = "Order.MOVE",
              !.target = [kind |-> "pos", a |-> x, b |-> y],
              !.tx = x, !.ty = y]

\* Unit.issue_order(Order.HARVEST, res), res the r-th resource of the player
Unit_order_harvest(u, r) ==
    [u EXCEPT !.order = "Order.HARVEST",
              !.target = [kind |-> "Resource", a |-> r, b |-> 0]]

\* Unit.issue_order(Order.ATTACK, unit), unit the i-th unit of player p
Unit_order_attack(u, p, i) ==
    [u EXCEPT !.order = "Order.ATTACK",
              !.target = [kind |-> "Unit", a |-> p, b |-> i]]

\* Unit.update, the move part
Unit_move(u) ==
    IF u.order = "Order.MOVE" /\ <<u.x, u.y>> # <<u.tx, u.ty>>
    THEN LET dx   == u.tx - u.x
             dy   == u.ty - u.y
             dist == hypot(dx, dy)
         IN  IF dist > Unit_speed
             THEN [u EXCEPT !.x = @ + (dx * Unit_speed) \div dist,
                            !.y = @ + (dy * Unit_speed) \div dist]
             ELSE [u EXCEPT !.x = u.tx, !.y = u.ty, !.order = "Order.IDLE"]
    ELSE u

(* for unit in self.player1.units + self.player2.units: unit.update().     *)
(* all is the concatenated list, n1 the length of player1.units; an attack *)
(* lowers the health of the target in the same list.                       *)
RECURSIVE Units_loop(_, _, _)
Units_loop(all, n1, k) ==
    IF k > Len(all) THEN all
    ELSE LET u     == Unit_move(all[k])
             moved == [all EXCEPT ![k] = u]
             t     == IF u.target.kind = "Unit"
                      THEN (IF u.target.a = 1 THEN 0 ELSE n1) + u.target.b
                      ELSE 0
         IN  IF /\ u.order = "Order.ATTACK"
                /\ t > 0
                /\ moved[t].health > 0
                /\ (u.x - moved[t].x) * (u.x - moved[t].x)
                     + (u.y - moved[t].y) * (u.y - moved[t].y)
                   <= Unit_attack_range * Unit_attack_range
             THEN LET hit == [moved EXCEPT ![t].health = @ - Unit_attack_damage]
                  IN  IF hit[t].health <= 0
                      THEN Units_loop([hit EXCEPT ![k].target = NoTarget,
                                                  ![k].order = "Order.IDLE"],
                                      n1, k + 1)
                      ELSE Units_loop(hit, n1, k + 1)
             ELSE Units_loop(moved, n1, k + 1)

\* Resource.__init__, pos in tiles
Resource_init(x, y, amount) ==
    [x |-> x, y |-> y, amount |-> amount, depleted |-> FALSE]

\* math.hypot(px - res.pos[0]*TILE_SIZE, py - res.pos[1]*TILE_SIZE) < 20
Resource_near(px, py, res) ==
    LET dx == px - res.x * TILE_SIZE
        dy == py - res.y * TILE_SIZE
    IN  dx * dx + dy * dy < harvest_range * harvest_range

\* Building.__init__; pos as given by the caller
Building_init(building_type, x, y) == [type |-> building_type, x |-> x, y |-> y]

\* a faulty variant: every building builds every unit
Building_can_build_any(b, unit_type) == TRUE

\* Building.can_build
Building_can_build(b, unit_type) ==
    b.type = "BuildingType.BARRACKS" /\ unit_type = "UnitType.MARINE"

\* a faulty variant: the unit is trained without the debit
Building_train_unit_free(b, pl, unit_type, off) ==
    IF Building_can_build(b, unit_type) /\ pl.minerals >= unit_cost
    THEN LET new_unit == Unit_init(unit_type, b.x + off[1], b.y + off[2])
         IN  [player |-> [pl EXCEPT !.units = Append(@, new_unit)],
              ret |-> <<new_unit>>]
    ELSE [player |-> pl, ret |-> <<>>]

(* Building.train_unit for a building of player pl, off the two random     *)
(* offsets: [player, ret], ret the returned unit as a list of one, empty   *)
(* for None.                                                               *)
Building_train_unit(b, pl, unit_type, off) ==
    IF Building_can_build(b, unit_type) /\ pl.minerals >= unit_cost
    THEN LET new_unit == Unit_init(unit_type, b.x + off[1], b.y + off[2])
         IN  [player |-> [pl EXCEPT !.minerals = @ - unit_cost,
                                    !.units = Append(@, new_unit)],
              ret |-> <<new_unit>>]
    ELSE [player |-> pl, ret |-> <<>>]

\* Player.__init__ followed by the appends of StarCraftClone.__init__
Player_init(worker, building, resource) ==
    [minerals |-> Player_minerals, supply_used |-> 0, units |-> <<worker>>,
     buildings |-> <<building>>, resources |-> <<resource>>]

\* StarCraftClone.__init__; exited: run() has left its loop
StarCraftClone_init ==
    [running |-> TRUE, exited |-> FALSE,
     player1 |-> Player_init(Unit_init("UnitType.WORKER", 5, 6),
                     Building_init("BuildingType.COMMAND_CENTER", 5, 5),
                     Resource_init(10, 10, Resource_amount)),
     player2 |-> Player_init(
                     Unit_init("UnitType.WORKER", MAP_WIDTH - 5, MAP_HEIGHT - 6),
                     Building_init("BuildingType.HATCHERY",
                                   MAP_WIDTH - 5, MAP_HEIGHT - 5),
                     Resource_init(MAP_WIDTH - 10, 10, Resource_amount)),
     selected_units |-> <<>>, selecting |-> FALSE, select_start |-> <<0, 0>>,
     ai_timer |-> 0]

NoCall == [made |-> FALSE]

(* what the last step did: the event handled and the mouse position read,  *)
(* the last call of train_unit (building, unit type, the player before and *)
(* after, the value returned), the harvest section of the last update      *)
(* (workers served, amount drained, minerals credited) and the minerals    *)
(* credited to the human since the start.                                  *)
sc_obs_none ==
    [event |-> "none", pos |-> <<0, 0>>, call |-> NoCall,
     harvests |-> 0, drained |-> 0, credited |-> 0, credited_total |-> 0]

-----------------------------------------------------------------------------
(* main(): the state after construction.                                   *)

obs_none ==
    [spawned |-> 0, dmg_max |-> 0, player_hit_king |-> FALSE,
     off_screen |-> FALSE, early_kill |-> FALSE, scan_damage |-> 0]

\* kingshot main(): the four towers added before the loop
kingshot_towers ==
    <<Tower_init(Px(100), Px(200)), Tower_init(Px(700), Px(200)),
      Tower_init(Px(100), Px(400)), Tower_init(Px(700), Px(400))>>

Init_common ==
    /\ crashed = FALSE
    /\ king = King_init
    /\ enemies = <<>>
    /\ projectiles = <<>>
    /\ mouse_x = 0
    /\ mouse_y = 0
    /\ game_over = FALSE
    /\ obs = obs_none
    /\ day_kills = 0
    /\ scan_target = -1
    /\ sc = StarCraftClone_init
    /\ sc_obs = sc_obs_none

\* the variables a script does not have keep the value given here
Init_kingshot ==
    /\ game = "kingshot"
    /\ player \in {p \in Players : p.role = "shooter"}
    /\ Init_common
    /\ towers = kingshot_towers
    /\ wave = 0
    /\ wave_timer = 0
    /\ spawn_timer = 0
    /\ gold = 0
    /\ day = 0
    /\ build_phase = FALSE
    /\ day_timer = 0
    /\ wave_active = FALSE
    /\ gold_earned = 0

Init_ks_thrown ==
    /\ game = "ks_thrown"
    /\ player \in Players
    /\ Init_common
    /\ towers = <<>>
    /\ gold = start_gold
    /\ day = 1
    /\ build_phase = TRUE
    /\ day_timer = start_day_timer
    /\ wave_active = FALSE
    /\ gold_earned = 0
    /\ wave = 0
    /\ wave_timer = 0
    /\ spawn_timer = 0

Init == Init_kingshot \/ Init_ks_thrown

alive == ~crashed

kingshot_only == <<wave, wave_timer, spawn_timer>>
ks_thrown_only == <<gold, day, build_phase, day_timer, wave_active, gold_earned>>

\* a faulty variant: wave + 2 for wave * 2
num_enemies_wave_plus(w) == w + enemies_per_wave

\* kingshot: num_enemies = wave * 2
num_enemies_wave(w) == w * enemies_per_wave

\* ks_thrown: num_enemies = day * 3
num_enemies_day(d) == d * enemies_per_day

\* a faulty variant: the price is not compared with the gold
can_afford_any(g) == TRUE

\* ks_thrown: if gold >= tower_cost
can_afford(g) == g >= tower_cost

\* a faulty variant: the enemy list is not looked at
wave_cleared_unchecked(es, active) == active

\* ks_thrown: if len(enemies) == 0 and wave_active
wave_cleared(es, active) == Len(es) = 0 /\ active

\* a faulty variant: >= for >
day_wins_early(d) == d >= win_condition

\* ks_thrown: if day > win_condition
day_wins(d) == d > win_condition

(* for _ in range(n): side = random.choice([0, SCREEN_WIDTH]);             *)
(* start_y = random.randint(50, SCREEN_HEIGHT - 50);                       *)
(* enemies.append(Enemy(side, start_y, king.x, king.y)): the lists of n    *)
(* new enemies the draws can give                                          *)
Spawn(n) ==
    { [i \in 1..n |-> Enemy_init(f[i][1], f[i][2])] :
        f \in [1..n -> Sides \X StartYs] }

-----------------------------------------------------------------------------
(* kingshot main(): the event handlers.                                    *)

\* MOUSEBUTTONDOWN and not game_over: king.shoot(mouse_x, mouse_y, ...)
Ks_click ==
    /\ game = "kingshot" /\ alive
    /\ IF game_over THEN UNCHANGED vars
       ELSE LET s == King_shoot(king, mouse_x, mouse_y, projectiles)
            IN  /\ king' = s.king
                /\ projectiles' = s.projectiles
                /\ UNCHANGED <<game, crashed, towers, enemies,
                               mouse_x, mouse_y, game_over, kingshot_only,
                               ks_thrown_only, obs, day_kills, player, scan_target, sc, sc_obs>>

\* KEYDOWN: if event.key == pygame.K_r and game_over: restart
Ks_restart ==
    /\ king' = [king EXCEPT !.health = King_max_health]
    /\ enemies' = <<>>
    /\ projectiles' = <<>>
    /\ wave' = 0
    /\ game_over' = FALSE
    /\ day_kills' = 0
    /\ UNCHANGED <<game, crashed, towers, mouse_x, mouse_y,
                   wave_timer, spawn_timer, ks_thrown_only, obs, player, scan_target, sc, sc_obs>>

Ks_key_r ==
    /\ game = "kingshot" /\ alive
    /\ IF game_over THEN Ks_restart ELSE UNCHANGED vars

(* kingshot main(): the update section of one frame (lines 196-235).       *)
Ks_update ==
    /\ game = "kingshot" /\ alive
    /\ IF game_over THEN UNCHANGED vars
       ELSE
        LET m       == player.aim
            timer1  == wave_timer + 1
            spawns  == timer1 > wave_period
            wave1   == IF spawns THEN wave + 1 ELSE wave
            n       == IF spawns THEN num_enemies_wave(wave1) ELSE 0
            pause1  == IF spawns THEN spawn_pause ELSE spawn_timer
        IN
        \E new \in Spawn(n) :
        LET es1 == enemies \o new
            k1  == King_update(king)
            tl  == Towers_loop(game, towers, 1, es1, projectiles)
            el  == Enemies_loop(es1, 1, <<>>, k1, kingshot_contact_damage)
            pl  == Projectiles_run(tl.projectiles, el.enemies, el.king)
        IN
        /\ mouse_x' = Px(m[1])
        /\ mouse_y' = Px(m[2])
        /\ wave' = wave1
        /\ wave_timer' = IF spawns THEN 0 ELSE timer1
        /\ spawn_timer' = IF pause1 > 0 THEN pause1 - 1 ELSE pause1
        /\ IF tl.raised
           THEN \* NameError in Tower.update: the rest of the frame never runs
                /\ crashed' = TRUE
                /\ king' = k1
                /\ enemies' = es1
                /\ obs' = [obs_none EXCEPT !.spawned = Len(new)]
                /\ UNCHANGED <<towers, projectiles, game_over, day_kills>>
           ELSE /\ crashed' = FALSE
                /\ towers' = tl.towers
                /\ enemies' = pl.enemies
                /\ projectiles' = pl.projectiles
                /\ king' = pl.king
                /\ game_over' = (pl.king.health <= 0)
                /\ obs' = [spawned |-> Len(new), dmg_max |-> pl.dmg_max,
                           player_hit_king |-> pl.player_hit_king,
                           off_screen |-> pl.off_screen,
                           early_kill |-> pl.early_kill,
                           scan_damage |-> k1.health - el.king.health]
                /\ day_kills' = day_kills + pl.killed
        /\ UNCHANGED <<game, ks_thrown_only, player, scan_target, sc, sc_obs>>

-----------------------------------------------------------------------------
(* ks_thrown main(): the event handlers.                                   *)

(* MOUSEBUTTONDOWN and not game_over: place a tower in the build phase if  *)
(* gold >= tower_cost, shoot in the defend phase.                          *)
Tf_click ==
    /\ game = "ks_thrown" /\ alive
    /\ IF game_over THEN UNCHANGED vars
       ELSE IF build_phase
       THEN IF can_afford(gold)
            THEN /\ player.role = "builder" /\ day <= MaxBuildDay
                 /\ towers' = Append(towers, Tower_init(mouse_x, mouse_y))
                 /\ gold' = gold - tower_cost
                 /\ UNCHANGED <<game, crashed, king, enemies,
                                projectiles, mouse_x, mouse_y, game_over,
                                kingshot_only, day, build_phase, day_timer,
                                wave_active, gold_earned, obs, day_kills,
                                player, scan_target, sc, sc_obs>>
            ELSE UNCHANGED vars
       ELSE /\ king.shoot_cooldown <= 0 => player.role = "shooter"
            /\ LET s == King_shoot(king, mouse_x, mouse_y, projectiles)
               IN
                /\ king' = s.king
                /\ projectiles' = s.projectiles
                /\ UNCHANGED <<game, crashed, towers, enemies,
                               mouse_x, mouse_y, game_over, kingshot_only,
                               ks_thrown_only, obs, day_kills, player, scan_target, sc, sc_obs>>

\* a faulty variant: the restart without towers.clear()
Tf_restart_keeps_towers ==
    /\ king' = [king EXCEPT !.health = King_max_health]
    /\ enemies' = <<>>
    /\ projectiles' = <<>>
    /\ gold' = start_gold
    /\ day' = 1
    /\ build_phase' = TRUE
    /\ day_timer' = start_day_timer
    /\ wave_active' = FALSE
    /\ game_over' = FALSE
    /\ day_kills' = 0
    /\ UNCHANGED <<game, crashed, towers, mouse_x, mouse_y, kingshot_only,
                   gold_earned, obs, player, scan_target, sc, sc_obs>>

\* KEYDOWN: if event.key == pygame.K_r and game_over: restart
Tf_restart ==
    /\ king' = [king EXCEPT !.health = King_max_health]
    /\ towers' = <<>>
    /\ enemies' = <<>>
    /\ projectiles' = <<>>
    /\ gold' = start_gold
    /\ day' = 1
    /\ build_phase' = TRUE
    /\ day_timer' = start_day_timer
    /\ wave_active' = FALSE
    /\ game_over' = FALSE
    /\ day_kills' = 0
    /\ UNCHANGED <<game, crashed, mouse_x, mouse_y, kingshot_only,
                   gold_earned, obs, player, scan_target, sc, sc_obs>>

\* a faulty variant: R restarts a game that has not ended
Tf_key_r_always ==
    /\ game = "ks_thrown" /\ alive
    /\ Tf_restart

Tf_key_r ==
    /\ game = "ks_thrown" /\ alive
    /\ IF game_over THEN Tf_restart ELSE UNCHANGED vars

(* ks_thrown main(), build phase of the update section (lines 215-226).    *)
Tf_build_step ==
    LET timer1 == day_timer - 1
        ends   == timer1 <= 0
    IN
    \E new \in Spawn(IF ends THEN num_enemies_day(day) ELSE 0) :
        /\ day_timer' = timer1
        /\ build_phase' = ~ends
        /\ wave_active' = (ends \/ wave_active)
        /\ enemies' = enemies \o new
        /\ obs' = [obs_none EXCEPT !.spawned = Len(new)]
        /\ day_kills' = IF ends THEN 0 ELSE day_kills
        /\ UNCHANGED <<king, towers, projectiles, game_over, gold, day,
                       gold_earned>>

(* ks_thrown main(), defend phase of the update section (lines 228-261).   *)
Tf_defend_step ==
    LET k1  == King_update(king)
        tl  == Towers_loop(game, towers, 1, enemies, projectiles)
        el  == Enemies_loop(enemies, 1, <<>>, k1, contact_damage)
        pl  == Projectiles_run(tl.projectiles, el.enemies, el.king)
        earned  == gold_earned + pl.reward
        cleared == wave_cleared(pl.enemies, wave_active)
        day1    == IF cleared THEN day + 1 ELSE day
    IN
    /\ towers' = tl.towers
    /\ enemies' = pl.enemies
    /\ projectiles' = pl.projectiles
    /\ king' = pl.king
    /\ wave_active' = (wave_active /\ ~cleared)
    /\ build_phase' = cleared
    /\ day_timer' = IF cleared
                    THEN start_day_timer + day * day_timer_step
                    ELSE day_timer
    /\ gold' = IF cleared THEN gold + earned + day * day_bonus ELSE gold
    /\ gold_earned' = IF cleared THEN 0 ELSE earned
    /\ day' = day1
    /\ game_over' = ((cleared /\ day_wins(day1))
                     \/ pl.king.health <= 0)
    /\ obs' = [spawned |-> 0, dmg_max |-> pl.dmg_max,
               player_hit_king |-> pl.player_hit_king,
               off_screen |-> pl.off_screen,
               early_kill |-> pl.early_kill,
               scan_damage |-> k1.health - el.king.health]
    /\ day_kills' = day_kills + pl.killed

Tf_update ==
    /\ game = "ks_thrown" /\ alive
    /\ IF game_over THEN UNCHANGED vars
       ELSE /\ mouse_x' = Px(player.aim[1])
            /\ mouse_y' = Px(player.aim[2])
            /\ IF build_phase THEN Tf_build_step ELSE Tf_defend_step
            /\ UNCHANGED <<game, crashed, kingshot_only, player, scan_target, sc, sc_obs>>

-----------------------------------------------------------------------------
Next ==
    \/ Ks_click
    \/ Ks_key_r
    \/ Ks_update
    \/ Tf_click
    \/ Tf_key_r
    \/ Tf_update

Spec == Init /\ [][Next]_vars

\* every variable of the tower-defense games
td_vars == <<game, crashed, king, towers, enemies, projectiles,
             mouse_x, mouse_y, game_over, kingshot_only, ks_thrown_only,
             obs, day_kills, player>>

\* the variables of main() when another program runs
Init_no_main ==
    /\ player \in {p \in Players : p.role = "shooter"}
    /\ crashed = FALSE
    /\ king = King_init
    /\ projectiles = <<>>
    /\ mouse_x = 0
    /\ mouse_y = 0
    /\ game_over = FALSE
    /\ obs = obs_none
    /\ day_kills = 0
    /\ wave = 0
    /\ wave_timer = 0
    /\ spawn_timer = 0
    /\ gold = 0
    /\ day = 0
    /\ build_phase = FALSE
    /\ day_timer = 0
    /\ wave_active = FALSE
    /\ gold_earned = 0

-----------------------------------------------------------------------------
(* Tower.update's scan for a target, applied to drawn enemy lists: one     *)
(* tower, up to TargetMaxEnemies enemies at the offsets TargetOffsets (px) *)
(* from it.  The offsets give the distances 180, 90, 140 and 150, the      *)
(* distance 90 in two directions and 150 in two directions.                *)

TargetMaxEnemies == 3
\* Tower(mouse_x, mouse_y): where the tower stands (px)
TargetTower == <<200, SCREEN_HEIGHT \div 2>>
TargetOffsets ==
    {<<180, 0>>, <<90, 0>>, <<140, 0>>, <<0, 90>>, <<150, 0>>, <<90, 120>>}

\* the enemies at the offsets l[1], l[2], ... from the tower
TargetEnemies(l) ==
    [i \in 1..Len(l) |->
        Enemy_init(TargetTower[1] + l[i][1], TargetTower[2] + l[i][2])]

Init_tower_scan ==
    /\ game = "tower_update"
    /\ Init_no_main
    /\ towers = <<Tower_init(Px(TargetTower[1]), Px(TargetTower[2]))>>
    /\ \E n \in 0..TargetMaxEnemies :
          \E l \in [1..n -> TargetOffsets] : enemies = TargetEnemies(l)
    /\ scan_target = -1
    /\ sc = StarCraftClone_init
    /\ sc_obs = sc_obs_none

\* the scan of Tower.update with the cooldown at 0
Tu_scan ==
    /\ game = "tower_update"
    /\ scan_target = -1
    /\ scan_target' = Tower_target(towers[1], enemies)
    /\ UNCHANGED <<td_vars, sc, sc_obs>>

Next_tower_scan == Tu_scan

SpecTarget == Init_tower_scan /\ [][Next_tower_scan]_vars

-----------------------------------------------------------------------------
(* starcraft.py: StarCraftClone.handle_events, one action per event, and   *)
(* StarCraftClone.update.  run() handles the events of a frame, then       *)
(* updates; a QUIT clears running and the loop is left after the update    *)
(* of that frame.                                                          *)

Init_starcraft ==
    /\ game = "starcraft"
    /\ Init_no_main
    /\ towers = <<>>
    /\ enemies = <<>>
    /\ scan_target = -1
    /\ sc = StarCraftClone_init
    /\ sc_obs = sc_obs_none

Sc_live == game = "starcraft" /\ ~crashed /\ ~sc.exited

\* a frame in which mouse events (and QUIT) arrive
Sc_event_frame == Sc_live /\ sc.ai_timer \in EventPhases

\* a frame in which key events arrive
Sc_key_frame == Sc_live /\ sc.ai_timer \in KeyPhases

SetMin(S) == CHOOSE x \in S : \A y \in S : x <= y

SetMax(S) == CHOOSE x \in S : \A y \in S : x >= y

InSeq(x, s) == \E i \in 1..Len(s) : s[i] = x

\* pygame.Rect(unit.pos[0] - size//2, unit.pos[1] - size//2, size, size)
Unit_rect(u) ==
    [left |-> u.x - Unit_size \div 2, top |-> u.y - Unit_size \div 2,
     w |-> Unit_size, h |-> Unit_size]

\* pygame.Rect.collidepoint
collidepoint(r, p) ==
    /\ r.left <= p[1] /\ p[1] < r.left + r.w
    /\ r.top <= p[2] /\ p[2] < r.top + r.h

\* pygame.Rect.colliderect
colliderect(r, q) ==
    /\ r.left < q.left + q.w /\ q.left < r.left + r.w
    /\ r.top < q.top + q.h /\ q.top < r.top + r.h

\* the ghost after an event; the mouse position is kept for a press of
\* button 3
Sc_seen(event, m) ==
    [sc_obs_none EXCEPT !.event = event, !.pos = m,
                        !.credited_total = sc_obs.credited_total]

\* MOUSEBUTTONDOWN, button 1
Sc_left_down ==
    /\ Sc_event_frame
    /\ \E m \in SelectPoints, ctrl \in CtrlKeys :
          LET us    == sc.player1.units
              kept  == IF ctrl THEN sc.selected_units ELSE <<>>
              under == {k \in 1..Len(us) : collidepoint(Unit_rect(us[k]), m)}
              sel   == IF under = {} THEN kept
                       ELSE IF ~ctrl THEN <<SetMin(under)>>
                       ELSE IF InSeq(SetMin(under), kept) THEN kept
                       ELSE Append(kept, SetMin(under))
          IN  /\ sc' = [sc EXCEPT !.selected_units = sel,
                                  !.select_start = m,
                                  !.selecting = TRUE]
              /\ sc_obs' = Sc_seen("other", <<0, 0>>)
    /\ UNCHANGED <<td_vars, scan_target>>

(* MOUSEBUTTONDOWN, button 3.  The presses taken are those that send every *)
(* unit along a row or a column, and at most MaxDepletedOrders of them lie *)
(* next to a resource whose amount is 0 or below.                          *)
Sc_right_down ==
    /\ Sc_event_frame
    /\ \E m \in OrderPoints :
          LET sel     == sc.selected_units
              us      == sc.player1.units
              rs      == sc.player1.resources
              moved   == [k \in 1..Len(us) |->
                            IF InSeq(k, sel)
                            THEN Unit_order_move(us[k], m[1], m[2])
                            ELSE us[k]]
              near    == {r \in 1..Len(rs) : Resource_near(m[1], m[2], rs[r])}
              workers == {i \in 1..Len(sel) :
                            us[sel[i]].type = "UnitType.WORKER"}
              ordered == IF near = {} \/ workers = {} THEN moved
                         ELSE [moved EXCEPT ![sel[SetMin(workers)]] =
                                  Unit_order_harvest(@, SetMax(near))]
          IN  /\ sc_obs' = Sc_seen("right_down", m)
              /\ IF sel = <<>>
                 THEN sc' = sc
                 ELSE /\ \A k \in 1..Len(us) :
                            ordered[k].order = "Order.MOVE" =>
                               \/ ordered[k].x = ordered[k].tx
                               \/ ordered[k].y = ordered[k].ty
                      /\ \A r \in near :
                            rs[r].amount > -(gather_rate * MaxDepletedOrders)
                      /\ sc' = [sc EXCEPT !.player1.units = ordered]
    /\ UNCHANGED <<td_vars, scan_target>>

\* MOUSEBUTTONUP, button 1; selected_units holds at most MaxSelected entries
Sc_left_up ==
    /\ Sc_event_frame
    /\ \E m \in BoxPoints, ctrl \in BoxCtrlKeys :
          LET s0   == sc.select_start
              us   == sc.player1.units
              box  == [left |-> IF s0[1] < m[1] THEN s0[1] ELSE m[1],
                       top  |-> IF s0[2] < m[2] THEN s0[2] ELSE m[2],
                       w    |-> Abs(m[1] - s0[1]),
                       h    |-> Abs(m[2] - s0[2])]
              In(k) == colliderect(Unit_rect(us[k]), box)
              found == SelectSeq([k \in 1..Len(us) |-> k], In)
              sel  == IF box.w > drag_min /\ box.h > drag_min
                      THEN (IF ctrl THEN sc.selected_units ELSE <<>>) \o found
                      ELSE sc.selected_units
          IN  /\ sc_obs' = Sc_seen("other", <<0, 0>>)
              /\ IF sc.selecting
                 THEN /\ Len(sel) <= MaxSelected
                      /\ sc' = [sc EXCEPT !.selecting = FALSE,
                                          !.selected_units = sel]
                 ELSE sc' = sc
    /\ UNCHANGED <<td_vars, scan_target>>

\* KEYDOWN K_b; at most MaxBarracks barracks are built
Sc_key_b ==
    /\ Sc_key_frame
    /\ \E m \in BuildPoints :
          LET p1  == sc.player1
              sel == sc.selected_units
          IN  /\ sc_obs' = Sc_seen("other", <<0, 0>>)
              /\ IF /\ sel # <<>>
                    /\ p1.units[sel[1]].type = "UnitType.WORKER"
                    /\ p1.minerals >= barracks_cost
                 THEN /\ Len(p1.buildings) <= MaxBarracks
                      /\ sc' = [sc EXCEPT
                            !.player1.buildings =
                                Append(@, Building_init("BuildingType.BARRACKS",
                                              m[1] \div TILE_SIZE,
                                              m[2] \div TILE_SIZE)),
                            !.player1.minerals = @ - barracks_cost]
                 ELSE sc' = sc
    /\ UNCHANGED <<td_vars, scan_target>>

\* KEYDOWN K_t; at most MaxTrainKeys presses reach a barracks
Sc_key_t ==
    /\ Sc_key_frame
    /\ LET p1       == sc.player1
           barracks == {i \in 1..Len(p1.buildings) :
                           p1.buildings[i].type = "BuildingType.BARRACKS"}
       IN  IF barracks = {}
           THEN sc' = sc /\ sc_obs' = Sc_seen("other", <<0, 0>>)
           ELSE /\ p1.supply_used < MaxTrainKeys
                /\ \E off \in SpawnOffsets :
                      LET b == p1.buildings[SetMin(barracks)]
                          r == Building_train_unit(b, p1, "UnitType.MARINE", off)
                      IN  /\ sc' = [sc EXCEPT !.player1 =
                                       [r.player EXCEPT !.supply_used = @ + 1]]
                          /\ sc_obs' =
                                [Sc_seen("other", <<0, 0>>) EXCEPT !.call =
                                    [made |-> TRUE, building |-> b,
                                     unit_type |-> "UnitType.MARINE",
                                     before |-> p1, after |-> r.player,
                                     ret |-> r.ret]]
    /\ UNCHANGED <<td_vars, scan_target>>

\* QUIT
Sc_quit ==
    /\ Sc_event_frame
    /\ sc' = [sc EXCEPT !.running = FALSE]
    /\ sc_obs' = Sc_seen("other", <<0, 0>>)
    /\ UNCHANGED <<td_vars, scan_target>>

(* update, the harvest section, over the units of player1 from the k-th:   *)
(* acc = [units, resources, minerals, harvests, drained, credited].        *)
RECURSIVE Harvest_loop(_, _)
Harvest_loop(acc, k) ==
    IF k > Len(acc.units) THEN acc
    ELSE LET u == acc.units[k]
             r == u.target.a
         IN  IF /\ u.order = "Order.HARVEST"
                /\ u.target.kind = "Resource"
                /\ Resource_near(u.x, u.y, acc.resources[r])
             THEN LET amount == acc.resources[r].amount - gather_rate
                      took   == [acc EXCEPT !.resources[r].amount = amount,
                                            !.harvests = @ + 1,
                                            !.drained = @ + gather_rate]
                  IN  IF amount <= 0
                      THEN Harvest_loop(
                               [took EXCEPT !.resources[r].depleted = TRUE,
                                            !.units[k].order = "Order.IDLE"],
                               k + 1)
                      ELSE Harvest_loop(
                               [took EXCEPT !.minerals = @ + gather_rate,
                                            !.credited = @ + gather_rate],
                               k + 1)
             ELSE Harvest_loop(acc, k + 1)

(* update, the AI section once a second: the outcomes [player2, raised,    *)
(* call] for player2 = p2 facing n1 units of player1.  roll is             *)
(* random.random() < 0.1, off the offsets train_unit draws; raised: the    *)
(* section raises (random.sample with too few non-workers, random.choice   *)
(* on an empty list).                                                      *)
Sc_ai(p2, n1, roll, off) ==
    LET ai_workers == {k \in 1..Len(p2.units) : p2.units[k].type = "Worker"}
        sent  == IF ai_workers # {} /\ p2.resources # <<>>
                    /\ ~p2.resources[1].depleted
                 THEN [p2 EXCEPT !.units[SetMin(ai_workers)] =
                                     Unit_order_harvest(@, 1)]
                 ELSE p2
        hatch == {i \in 1..Len(sent.buildings) :
                     sent.buildings[i].type = "BuildingType.HATCHERY"}
        train == hatch # {} /\ roll /\ sent.minerals >= unit_cost
        b     == sent.buildings[SetMin(hatch)]
        r     == Building_train_unit(b, sent, "UnitType.ZERG_LING", off)
        grown == IF train
                 THEN [r.player EXCEPT !.supply_used = @ + 1,
                                       !.minerals = @ - unit_cost]
                 ELSE sent
        call  == IF train
                 THEN [made |-> TRUE, building |-> b,
                       unit_type |-> "UnitType.ZERG_LING",
                       before |-> sent, after |-> r.player, ret |-> r.ret]
                 ELSE NoCall
        fighters == {k \in 1..Len(grown.units) :
                        grown.units[k].type # "UnitType.WORKER"}
        n     == IF Len(grown.units) - 1 < 2 THEN Len(grown.units) - 1 ELSE 2
    IN  IF Len(grown.units) > 2
        THEN IF Cardinality(fighters) < n \/ n1 = 0
             THEN {[player2 |-> grown, raised |-> TRUE, call |-> call]}
             ELSE {[player2 |->
                       [grown EXCEPT !.units =
                           [k \in 1..Len(grown.units) |->
                               IF k \in S
                               THEN Unit_order_attack(grown.units[k], 1, f[k])
                               ELSE grown.units[k]]],
                    raised |-> FALSE, call |-> call] :
                   S \in {T \in SUBSET fighters : Cardinality(T) = n},
                   f \in [fighters -> 1..n1]}
        ELSE {[player2 |-> grown, raised |-> FALSE, call |-> call]}

(* StarCraftClone.update.  Button 1 is released in the frame it was        *)
(* pressed in: no update is reached with selecting set.                    *)
Sc_update ==
    /\ Sc_live
    /\ ~sc.selecting
    /\ \E roll \in AiRolls, off \in SpawnOffsets :
          LET n1    == Len(sc.player1.units)
              all   == Units_loop(sc.player1.units \o sc.player2.units, n1, 1)
              h     == Harvest_loop(
                           [units |-> SubSeq(all, 1, n1),
                            resources |-> sc.player1.resources,
                            minerals |-> sc.player1.minerals,
                            harvests |-> 0, drained |-> 0, credited |-> 0], 1)
              p1    == [sc.player1 EXCEPT !.units = h.units,
                                          !.resources = h.resources,
                                          !.minerals = h.minerals]
              p2    == [sc.player2 EXCEPT
                            !.units = SubSeq(all, n1 + 1, Len(all))]
              tick  == sc.ai_timer + 1 > ai_period
              seen  == [sc_obs_none EXCEPT
                            !.event = "update",
                            !.harvests = h.harvests,
                            !.drained = h.drained,
                            !.credited = h.credited,
                            !.credited_total =
                                sc_obs.credited_total + h.credited]
          IN  IF tick
              THEN \E out \in Sc_ai(p2, n1, roll, off) :
                      /\ sc' = [sc EXCEPT !.player1 = p1,
                                          !.player2 = out.player2,
                                          !.ai_timer = 0,
                                          !.exited = ~sc.running]
                      /\ sc_obs' = [seen EXCEPT !.call = out.call]
                      /\ crashed' = out.raised
              ELSE /\ sc' = [sc EXCEPT !.player1 = p1,
                                       !.player2 = p2,
                                       !.ai_timer = @ + 1,
                                       !.exited = ~sc.running]
                   /\ sc_obs' = seen
                   /\ crashed' = FALSE
    /\ UNCHANGED <<game, king, towers, enemies, projectiles,
                   mouse_x, mouse_y, game_over, kingshot_only, ks_thrown_only,
                   obs, day_kills, player, scan_target>>

Next_starcraft ==
    \/ Sc_left_down
    \/ Sc_right_down
    \/ Sc_left_up
    \/ Sc_key_b
    \/ Sc_key_t
    \/ Sc_quit
    \/ Sc_update

SpecSc == Init_starcraft /\ [][Next_starcraft]_vars

-----------------------------------------------------------------------------
(* The properties.  restarted: the step is a restart (the only step that   *)
(* clears game_over).  cleared_day: the step is the Defend->Build          *)
(* transition of an update section.                                        *)

restarted == game_over /\ ~game_over'

cleared_day == game = "ks_thrown" /\ ~game_over /\ ~build_phase /\ build_phase'

(* C1: a projectile applies damage at most once: one Projectile.update     *)
(* lowers the health of at most one entity, and a projectile that has      *)
(* registered a hit, or has moved off the screen, is not in the list after *)
(* the tick.                                                               *)
C1_ProjectileHitsOnce ==
    /\ obs.dmg_max <= 1
    /\ \A i \in 1..Len(projectiles) :
          /\ projectiles[i].hits = 0
          /\ projectiles[i].moved => Projectile_on_screen(projectiles[i])

\* a tick in which one projectile hit and left the list, another flies on
C1_Witness ==
    /\ obs.dmg_max = 1
    /\ \E i \in 1..Len(projectiles) : projectiles[i].moved

(* C2: no update of a projectile fired by the king lowers king.health.     *)
C2_PlayerShotSparesKing == ~obs.player_hit_king

(* C3: king.health <= 0 means the game is over, and over as a defeat: in   *)
(* ks_thrown never with day > win_condition (shown as victory).            *)
C3_DeadMeansDefeat ==
    king.health <= 0 =>
        /\ game_over
        /\ game = "ks_thrown" => ~day_wins(day)

(* C4: R in the ended state puts king.health at max_health, empties the    *)
(* enemy and projectile lists, sets wave to 0 (kingshot) or gold to 200,   *)
(* day to 1, the phase to Build with timer 600 and the tower list to empty *)
(* (ks_thrown), and clears game_over.                                      *)
C4_RestartValues ==
    [][restarted =>
        /\ king'.health = King_max_health
        /\ enemies' = <<>>
        /\ projectiles' = <<>>
        /\ game = "kingshot" => wave' = 0
        /\ game = "ks_thrown" =>
              /\ gold' = start_gold
              /\ day' = 1
              /\ build_phase'
              /\ day_timer' = start_day_timer
              /\ towers' = <<>>]_vars

\* after a restart: full health while the last shot's cooldown still runs
C4_Witness ==
    /\ ~game_over
    /\ king.health = King_max_health
    /\ king.shoot_cooldown > 0
    /\ projectiles = <<>>

(* C5: a restart also puts wave_timer and spawn_timer (kingshot),          *)
(* gold_earned (ks_thrown) and the king's and the towers' shoot cooldowns  *)
(* at their fresh-start values.                                            *)
C5_RestartResetsAll ==
    [][restarted =>
        /\ king'.shoot_cooldown = 0
        /\ \A i \in 1..Len(towers') : towers'[i].shoot_cooldown = 0
        /\ game = "kingshot" => wave_timer' = 0 /\ spawn_timer' = 0
        /\ game = "ks_thrown" => gold_earned' = 0]_vars

(* C6: in ks_thrown gold starts at 200; the tower list grows only by one   *)
(* tower, in the build phase, with gold >= 50 and gold lowered by exactly  *)
(* 50; gold is lowered by nothing else but a restart; gold is never        *)
(* negative.                                                               *)
C6_GoldEconomy ==
    /\ game = "ks_thrown" => gold = start_gold /\ towers = <<>>
    /\ [][game = "ks_thrown" =>
            /\ gold' >= 0
            /\ Len(towers') > Len(towers) =>
                  /\ build_phase /\ ~game_over
                  /\ gold >= tower_cost
                  /\ gold' = gold - tower_cost
                  /\ Len(towers') = Len(towers) + 1
                  /\ SubSeq(towers', 1, Len(towers)) = towers
            /\ gold' < gold =>
                  Len(towers') = Len(towers) + 1 \/ restarted]_vars

\* all the gold is spent on towers: the next click is rejected
C6_Witness ==
    /\ game = "ks_thrown" /\ build_phase /\ ~game_over
    /\ Len(towers) = start_gold \div tower_cost
    /\ gold < tower_cost

(* C7: at the Defend->Build transition ending day D gold grows by exactly  *)
(* 50*D plus 10 for each enemy a projectile killed during day D of the     *)
(* current game, gold_earned returns to 0 and the next build timer is      *)
(* 600 + 60*D.                                                             *)
C7_DayReward ==
    [][cleared_day =>
        /\ gold' = gold + day_bonus * day + Enemy_gold_reward * day_kills'
        /\ gold_earned' = 0
        /\ day_timer' = start_day_timer + day_timer_step * day]_vars

(* C8: the N-th wave of kingshot appends exactly 2*N enemies, wave         *)
(* counting from the start or the restart; ks_thrown appends exactly 3*D   *)
(* enemies at the Build->Defend transition of day D; the enemy list grows  *)
(* at no other step.                                                       *)
C8_WaveScaling ==
    [][/\ game = "kingshot" =>
              /\ wave' # wave =>
                    \/ wave' = wave + 1
                       /\ obs'.spawned = enemies_per_wave * wave'
                    \/ restarted /\ wave' = 0
              /\ Len(enemies') > Len(enemies) => wave' = wave + 1
       /\ game = "ks_thrown" =>
              /\ build_phase /\ ~build_phase' =>
                    /\ obs'.spawned = enemies_per_day * day
                    /\ Len(enemies') = Len(enemies) + enemies_per_day * day
              /\ Len(enemies') > Len(enemies) =>
                    build_phase /\ ~build_phase']_vars

\* the tick that starts the second night
C8_Witness ==
    /\ game = "ks_thrown" /\ day = 2 /\ ~build_phase
    /\ obs.spawned = enemies_per_day * 2
    /\ Len(enemies) = enemies_per_day * 2

(* C9: ks_thrown leaves Build only in the tick day_timer reaches 0 and     *)
(* leaves Defend only into a state with no live enemy; in every build      *)
(* phase state the enemy list is empty and wave_active is false, in every  *)
(* defend phase state of a running game wave_active is true.               *)
C9_PhaseAlternation ==
    /\ game = "ks_thrown" => build_phase /\ enemies = <<>> /\ ~wave_active
    /\ [][game = "ks_thrown" =>
            /\ build_phase /\ ~build_phase' =>
                  day_timer = 1 /\ day_timer' = 0
            /\ ~build_phase /\ build_phase' => enemies' = <<>>
            /\ build_phase' => enemies' = <<>> /\ ~wave_active'
            /\ ~build_phase' /\ ~game_over' => wave_active']_vars

\* the second night is being fought
C9_Witness ==
    /\ game = "ks_thrown" /\ day = 2 /\ ~build_phase /\ ~game_over
    /\ wave_active /\ enemies # <<>>

(* C10: in ks_thrown day starts at 1, changes only by +1 at a              *)
(* Defend->Build transition (and back to 1 at a restart), never exceeds    *)
(* 6; day > 5 is reached only with game_over set in that step, and a game  *)
(* whose king is alive ends at no other step.                              *)
C10_DayCounter ==
    /\ game = "ks_thrown" => day = 1
    /\ [][game = "ks_thrown" =>
            /\ day' \in 1..(win_condition + 1)
            /\ day' # day =>
                  \/ cleared_day /\ day' = day + 1
                  \/ restarted /\ day' = 1
            /\ cleared_day => day' = day + 1
            /\ day' > win_condition => game_over'
            /\ ~game_over /\ game_over' =>
                  \/ king'.health <= 0
                  \/ cleared_day /\ day = win_condition]_vars

\* the fifth night is cleared: the game has ended at day 6
C10_Witness ==
    game = "ks_thrown" /\ game_over /\ day = win_condition + 1

(* C11: an enemy leaves the list through damage in the very projectile     *)
(* update that brings its health to 0 or below, and not before: every      *)
(* enemy in the list has health in 1..50, and no projectile update has     *)
(* removed an enemy whose health was still above 0.                        *)
C11_DeadEnemyRemoved ==
    /\ \A i \in 1..Len(enemies) : enemies[i].health \in 1..Enemy_max_health
    /\ ~obs.early_kill

\* a projectile has killed an enemy while a wounded one is still walking
C11_Witness ==
    /\ game = "ks_thrown" /\ day_kills > 0
    /\ \E i \in 1..Len(enemies) : enemies[i].health < Enemy_max_health

(* C12: the king's health, the number shown in the Health label, is        *)
(* within 0..max_health in every state.                                    *)
C12_HealthClamped == king.health \in 0..King_max_health

(* C13: the king's shoot_cooldown is within 0..shoot_delay (10) and every  *)
(* tower's shoot_cooldown is within 0..shoot_delay (30).                   *)
C13_CooldownRange ==
    /\ king.shoot_cooldown \in 0..King_shoot_delay
    /\ \A i \in 1..Len(towers) :
          towers[i].shoot_cooldown \in 0..Tower_shoot_delay

\* the king of ks_thrown has just shot
C13_Witness ==
    game = "ks_thrown" /\ king.shoot_cooldown = King_shoot_delay

(* C15: in a step that moves the enemies and removes none, every enemy     *)
(* ends exactly one speed closer to the king, on the straight line to the  *)
(* king and on the same side of it; no enemy of the list is ever within    *)
(* contact distance of the king, so none reaches or passes the king.       *)
C15_EnemyApproaches ==
    [][/\ \A i \in 1..Len(enemies') :
             ~hypot_lt(enemies'[i].x - King_x, enemies'[i].y - King_y,
                       Enemy_radius + King_radius)
       /\ (enemies' # enemies /\ Len(enemies') = Len(enemies)) =>
             \A i \in 1..Len(enemies) :
                LET dx  == King_x - enemies[i].x
                    dy  == King_y - enemies[i].y
                    dx2 == King_x - enemies'[i].x
                    dy2 == King_y - enemies'[i].y
                IN  /\ hypot(dx2, dy2) = hypot(dx, dy) - Enemy_speed_units
                    /\ dx2 * dy = dy2 * dx
                    /\ dx2 * dx >= 0 /\ dy2 * dy >= 0]_vars

\* an enemy has walked 150 px of its way
C15_Witness ==
    \E i \in 1..Len(enemies) : enemies[i].x = Px(150)

\* no flight inside the playfield lasts longer: each update moves a
\* projectile 8 px, which is at least 8 px along one of the two axes
Projectile_max_flight == (SCREEN_WIDTH + SCREEN_HEIGHT) \div Projectile_speed

(* C16: every projectile leaves the list after finitely many updates of    *)
(* the projectile loop: no projectile of the list has been updated more    *)
(* often than a flight across the playfield lasts, and none has hit        *)
(* anything, so each leaves by its first hit or when it leaves the field.  *)
C16_ProjectileRemoved ==
    \A i \in 1..Len(projectiles) :
        /\ projectiles[i].age <= Projectile_max_flight
        /\ projectiles[i].hits = 0

\* the projectiles of a salvo have left the playfield and the list
C16_Witness ==
    /\ game = "ks_thrown" /\ ~game_over /\ ~build_phase
    /\ obs.off_screen /\ projectiles = <<>>

\* the squared distance (1/Scale px) of the i-th enemy from the tower
scan_d2(i) ==
    (enemies[i].x - towers[1].x) * (enemies[i].x - towers[1].x)
        + (enemies[i].y - towers[1].y) * (enemies[i].y - towers[1].y)

(* C14: the scan of Tower.update returns no target when no enemy is        *)
(* strictly within the range (150), and otherwise an enemy strictly within *)
(* the range such that no enemy is nearer and no enemy at the same         *)
(* distance stands earlier in the list; distances [180, 90, 140] select    *)
(* the second enemy.                                                       *)
C14_NearestInRange ==
    (game = "tower_update" /\ scan_target # -1) =>
        LET in_range == {i \in 1..Len(enemies) :
                            scan_d2(i) < Px(Tower_range) * Px(Tower_range)}
        IN  /\ in_range = {} => scan_target = 0
            /\ in_range # {} =>
                  /\ scan_target \in in_range
                  /\ \A j \in in_range :
                        \/ scan_d2(scan_target) < scan_d2(j)
                        \/ scan_d2(scan_target) = scan_d2(j) /\ scan_target <= j
            /\ enemies = TargetEnemies(<<<<180, 0>>, <<90, 0>>, <<140, 0>>>>)
                  => scan_target = 2

\* enemies at the same distance 90 in two directions behind one out of
\* range: the scan has chosen the earlier of the two
C14_Witness ==
    /\ game = "tower_update"
    /\ enemies = TargetEnemies(<<<<150, 0>>, <<0, 90>>, <<90, 0>>>>)
    /\ scan_target = 2

(* C17: no event-handling or update step of any of the games ends in an   *)
(* unhandled exception.                                                    *)
C17_NoFatalStep == ~crashed

(* C18: right after a right mouse press with a non-empty selection, when a *)
(* non-depleted resource of the human lies within 20 px of the click every *)
(* selected worker has order Harvest with that resource as its target, and *)
(* every other selected unit has order Move with target_pos at the click.  *)
C18_RightPressOrders ==
    (game = "starcraft" /\ sc_obs.event = "right_down"
        /\ sc.selected_units # <<>>) =>
        LET m  == sc_obs.pos
            rs == sc.player1.resources
            harvestable == {r \in 1..Len(rs) :
                               /\ ~rs[r].depleted
                               /\ Resource_near(m[1], m[2], rs[r])}
        IN  \A i \in 1..Len(sc.selected_units) :
               LET u == sc.player1.units[sc.selected_units[i]]
               IN  IF harvestable # {} /\ u.type = "UnitType.WORKER"
                   THEN /\ u.order = "Order.HARVEST"
                        /\ u.target.kind = "Resource"
                        /\ u.target.a \in harvestable
                   ELSE /\ u.order = "Order.MOVE"
                        /\ <<u.tx, u.ty>> = m

(* C19: an update in which workers with a Harvest order stand within 20 px *)
(* of their resource drains 8 from the resource and credits 8 minerals for *)
(* each of them, so the minerals credited since the start equal the amount *)
(* drained; a resource whose amount is 0 or below is marked depleted.      *)
C19_HarvestCredits ==
    game = "starcraft" =>
        /\ sc_obs.drained = gather_rate * sc_obs.harvests
        /\ sc_obs.credited = gather_rate * sc_obs.harvests
        /\ sc_obs.credited_total
              = Resource_amount - sc.player1.resources[1].amount
        /\ sc.player1.resources[1].amount <= 0
              => sc.player1.resources[1].depleted

(* C20: a call of Building.train_unit(t) on a building that can build t    *)
(* for an owner with at least 50 minerals debits exactly 50 minerals,      *)
(* appends exactly one new unit of type t to the owner's units, within     *)
(* 20 px of the building on each axis, and returns it; any other call      *)
(* returns None and leaves the owner as it was.                            *)
C20_TrainAllOrNothing ==
    (game = "starcraft" /\ sc_obs.call.made) =>
        LET c == sc_obs.call
        IN  IF /\ Building_can_build(c.building, c.unit_type)
               /\ c.before.minerals >= unit_cost
            THEN /\ Len(c.ret) = 1
                 /\ c.after = [c.before EXCEPT
                                  !.minerals = @ - unit_cost,
                                  !.units = Append(@, c.ret[1])]
                 /\ c.ret[1].type = c.unit_type
                 /\ Abs(c.ret[1].x - c.building.x) <= spawn_spread
                 /\ Abs(c.ret[1].y - c.building.y) <= spawn_spread
            ELSE /\ c.ret = <<>>
                 /\ c.after = c.before

\* T has trained a marine at the barracks
C20_Witness ==
    /\ game = "starcraft" /\ sc_obs.call.made
    /\ sc_obs.call.ret # <<>>
    /\ Len(sc.player1.units) = 2

(* C21: right after an update in which the opponent's timer has fired, if  *)
(* the opponent owns a unit of type Worker and its resource is not         *)
(* depleted, the first such unit has order Harvest with that resource as   *)
(* its target.                                                             *)
C21_AiWorkerHarvests ==
    (game = "starcraft" /\ ~crashed /\ sc_obs.event = "update"
        /\ sc.ai_timer = 0) =>
        LET p2      == sc.player2
            workers == {k \in 1..Len(p2.units) :
                           p2.units[k].type = "UnitType.WORKER"}
        IN  (workers # {} /\ p2.resources # <<>>
                /\ ~p2.resources[1].depleted) =>
               LET u == p2.units[SetMin(workers)]
               IN  /\ u.order = "Order.HARVEST"
                   /\ u.target = [kind |-> "Resource", a |-> 1, b |-> 0]

(* C22: right after an update in which the opponent's train action fired   *)
(* (timer expired, gate passed, a hatchery exists, minerals >= 50) the     *)
(* opponent has one more unit, a Zergling, and 50 minerals less than       *)
(* before the action; and the minerals are lower than before only if a     *)
(* unit was added.                                                         *)
C22_AiTrainSpawns ==
    (game = "starcraft" /\ sc_obs.event = "update" /\ sc_obs.call.made) =>
        LET before == sc_obs.call.before
            p2     == sc.player2
        IN  /\ Len(p2.units) = Len(before.units) + 1
            /\ p2.units[Len(p2.units)].type = "UnitType.ZERG_LING"
            /\ p2.minerals = before.minerals - unit_cost
            /\ p2.minerals < before.minerals
                  => Len(p2.units) > Len(before.units)

(* C23: selected_units holds only units of the human player and holds each *)
(* unit at most once, whatever presses, drags and releases of button 1     *)
(* came before, with or without the control key.                           *)
C23_SelectionSet ==
    game = "starcraft" =>
        LET sel == sc.selected_units
        IN  /\ \A i \in 1..Len(sel) : sel[i] \in 1..Len(sc.player1.units)
            /\ \A i, j \in 1..Len(sel) : sel[i] = sel[j] => i = j

(* C27: in every update a unit of the human that holds a Move order to a   *)
(* point P either is farther than its speed from P, and then moves by      *)
(* exactly its speed straight towards P and keeps the order, or is placed  *)
(* exactly on P and becomes Idle.                                          *)
C27_MoveStep ==
    [][(game = "starcraft" /\ sc_obs'.event = "update") =>
          \A k \in 1..Len(sc.player1.units) :
             LET u    == sc.player1.units[k]
                 v    == sc'.player1.units[k]
                 dist == hypot(u.tx - u.x, u.ty - u.y)
             IN  u.order = "Order.MOVE" =>
                    IF dist > Unit_speed
                    THEN /\ hypot(v.x - u.x, v.y - u.y) = Unit_speed
                         /\ hypot(u.tx - v.x, u.ty - v.y) = dist - Unit_speed
                         /\ v.order = "Order.MOVE"
                         /\ <<v.tx, v.ty>> = <<u.tx, u.ty>>
                    ELSE /\ <<v.x, v.y>> = <<u.tx, u.ty>>
                         /\ v.order = "Order.IDLE"]_vars

(* C28: the amount of every resource is 0 or more in every state, and no   *)
(* step lowers the amount of a resource that is marked depleted.           *)
C28_ResourceFloor ==
    /\ [](game = "starcraft" =>
             \A r \in 1..Len(sc.player1.resources) :
                sc.player1.resources[r].amount >= 0)
    /\ [][game = "starcraft" =>
             \A r \in 1..Len(sc.player1.resources) :
                sc.player1.resources[r].depleted =>
                   sc'.player1.resources[r].amount
                      >= sc.player1.resources[r].amount]_vars

(* C29: for each player supply_used equals the number of units the player  *)
(* has trained so far, that is, the units it owns beyond its initial       *)
(* worker (no unit ever leaves a player's list).                           *)
C29_SupplyCountsTrained ==
    game = "starcraft" =>
        /\ sc.player1.supply_used = Len(sc.player1.units) - 1
        /\ sc.player2.supply_used = Len(sc.player2.units) - 1

(* C30: the minerals of both players are 0 or more in every state.         *)
C30_MineralsNonNegative ==
    game = "starcraft" =>
        /\ sc.player1.minerals >= 0
        /\ sc.player2.minerals >= 0

(* the human has paid for a barracks and a marine and the opponent's train *)
(* action has taken its last 50 minerals                                   *)
C30_Witness ==
    /\ game = "starcraft"
    /\ Len(sc.player1.buildings) = 2
    /\ Len(sc.player1.units) = 2
    /\ sc.player2.minerals = 0

\* Enemy.update brings the enemy within enemy.radius + king.radius of the king
Enemy_reaches(e) ==
    hypot_lt(Enemy_update(e).x - King_x, Enemy_update(e).y - King_y,
             Enemy_radius + King_radius)

(* C24: in a combat tick the scan moves every enemy of the list once; the  *)
(* enemies that end within 35 px of the king deal the contact damage (10   *)
(* in kingshot, 15 in ks_thrown) once each and leave the list, the others  *)
(* stay, moved by one step, unless a projectile of the same tick kills     *)
(* them: the list shrinks by the contacts and the kills and by no more.    *)
C24_ScanVisitsOnce ==
    [][(/\ ~game_over /\ ~crashed /\ ~crashed'
        /\ enemies' # enemies
        /\ game = "kingshot" \/ (game = "ks_thrown" /\ ~build_phase)) =>
          LET dmg      == IF game = "kingshot" THEN kingshot_contact_damage
                          ELSE contact_damage
              contacts == Cardinality({i \in 1..Len(enemies) :
                                          Enemy_reaches(enemies[i])})
              fresh    == IF obs'.spawned > 0
                          THEN {Enemy_init(sd, y) : sd \in Sides, y \in StartYs}
                          ELSE {}
              stay     == {Enemy_update(e) :
                             e \in {enemies[i] : i \in 1..Len(enemies)}
                                      \cup fresh}
          IN  /\ obs'.scan_damage = dmg * contacts
              /\ Len(enemies') = Len(enemies) + obs'.spawned - contacts
                                    - (day_kills' - day_kills)
              /\ \A j \in 1..Len(enemies') :
                    \E e \in stay :
                       /\ <<enemies'[j].x, enemies'[j].y>> = <<e.x, e.y>>
                       /\ ~hypot_lt(e.x - King_x, e.y - King_y,
                                    Enemy_radius + King_radius)]_vars

\* three enemies have reached the king in one scan
C24_Witness ==
    /\ game = "ks_thrown"
    /\ obs.scan_damage = 3 * contact_damage
    /\ enemies = <<>>

(* C25: in a combat tick a tower whose cooldown is 0 and that has an enemy *)
(* strictly within its range sets its cooldown to 30 and appends one       *)
(* projectile of damage 20 aimed at an enemy in its range; a tower with a  *)
(* positive cooldown counts it down by one and appends nothing, and so     *)
(* does nothing a tower with no enemy in range.  The projectiles a tick    *)
(* adds have made their first move by the end of the tick.                 *)
C25_TowerFires ==
    [][(/\ ~game_over /\ ~crashed
        /\ enemies' # enemies
        /\ game = "kingshot" \/ (game = "ks_thrown" /\ ~build_phase)) =>
          LET fresh    == IF obs'.spawned > 0
                          THEN {Enemy_init(sd, y) : sd \in Sides, y \in StartYs}
                          ELSE {}
              es       == {enemies[i] : i \in 1..Len(enemies)} \cup fresh
              near(tw) == {e \in es : hypot_lt(e.x - tw.x, e.y - tw.y,
                                               Tower_range)}
              shooters == {i \in 1..Len(towers) :
                              /\ towers[i].shoot_cooldown = 0
                              /\ near(towers[i]) # {}}
              shot(j)  == /\ projectiles'[j].damage = Tower_damage
                          /\ projectiles'[j].age = 1
          IN  /\ Len(towers') = Len(towers)
              /\ \A i \in 1..Len(towers) :
                    towers'[i].shoot_cooldown =
                       IF i \in shooters THEN Tower_shoot_delay
                       ELSE IF towers[i].shoot_cooldown > 0
                       THEN towers[i].shoot_cooldown - 1
                       ELSE 0
              /\ Cardinality({j \in 1..Len(projectiles') : shot(j)})
                    <= Cardinality(shooters)
              /\ \A j \in 1..Len(projectiles') :
                    shot(j) =>
                       \E i \in shooters : \E e \in near(towers[i]) :
                          LET p == Projectile_init(towers[i].x, towers[i].y,
                                       e.x, e.y, Tower_damage, FALSE)
                          IN  projectiles'[j] =
                                 [p EXCEPT !.x = @ + p.vx, !.y = @ + p.vy,
                                           !.moved = TRUE, !.age = 1]]_vars

(* C26: the only step that changes anything while the game is in the ended *)
(* state is the restart (R), which leaves the ended state with the king at *)
(* full health and no enemies or projectiles: ticks and clicks change      *)
(* nothing.  While the game is not ended no step has the effects of the    *)
(* restart: the king's health does not rise, no tower is taken away and    *)
(* the day and the wave do not fall.                                       *)
C26_EndedFrozen ==
    [][IF game_over
       THEN /\ ~game_over'
            /\ king'.health = King_max_health
            /\ enemies' = <<>>
            /\ projectiles' = <<>>
       ELSE /\ king'.health <= king.health
            /\ Len(towers') >= Len(towers)
            /\ day' >= day
            /\ wave' >= wave]_vars

\* the game has ended with enemies on the field
C26_Witness ==
    /\ game = "ks_thrown"
    /\ game_over
    /\ enemies # <<>>

====
